---- MODULE Spec2Model ----
(***************************************************************************)
(* AWS documentation MCP server: pagination of a documentation page, the   *)
(* JSON-RPC dispatch of the three deployment targets (the Hono app of      *)
(* transports.ts, the Workers entry point index.ts, the Workers entry      *)
(* point worker.js with mcp-server.js) and the SSE session set of          *)
(* transports.ts.                                                          *)
(*                                                                         *)
(* The specifications share the variables:                                 *)
(*   SpecPage  the pagination formatters, called with drawn inputs;        *)
(*   SpecRec   the recommendation helpers, called with drawn inputs;       *)
(*   SpecExtract  the HTML extractors, called on drawn documents;          *)
(*   Spec      one HTTP request after another against a deployment target; *)
(*   SpecSess  the SSE endpoints under a clock: sessions, streams, timers. *)
(***************************************************************************)
EXTENDS Integers, Sequences, FiniteSets, TLC

VARIABLES
    page,      \* the pagination call in progress and its last result
    fn,        \* the call of a pure helper in progress: its name, input and output
    target,    \* which entry point is deployed: "transports", "index", "worker"
    rpc,       \* the HTTP exchange being served or last served (one POST at a time)
    now,       \* Date.now()
    ticks,     \* how often the clock advanced (bounds the model)
    sessions,  \* transports.ts `sessions` Map: id -> [id, createdAt, lastActivity]
    conns      \* per GET /sse response: its frames, interval and timeout

vars == <<page, fn, target, rpc, now, ticks, sessions, conns>>

Min(a, b) == IF a < b THEN a ELSE b
Max(a, b) == IF a > b THEN a ELSE b

(***************************************************************************)
(* Bounds of the model.                                                    *)
(***************************************************************************)
MaxLen == 3          \* longest content string
MaxMaxLength == 3    \* largest max_length argument
MaxSessions == 2     \* session ids that GET /sse may issue
MaxTicks == 3        \* clock advances
MaxBucket == 2       \* items in one bucket of the recommendations answer
MaxResults == 3      \* largest max_results argument
MaxRegions == 2      \* regions directly under body in a page
MaxSkew == 2         \* ms around time 0 and around the inactivity limit in a sweep

Alphabet == {"a", "b"}

RECURSIVE StringsUpTo(_)
StringsUpTo(n) ==
    IF n = 0 THEN {<<>>}
    ELSE LET shorter == StringsUpTo(n - 1)
         IN  shorter \cup {Append(s, c) : s \in shorter, c \in Alphabet}

Contents == StringsUpTo(MaxLen)
PageUrls == {"https://docs.aws.amazon.com/a.html", "https://docs.aws.amazon.com/b.html"}
StartIndexes == -1 .. (MaxLen + 1)
MaxLengths == -1 .. MaxMaxLength

(***************************************************************************)
(* JavaScript string primitives, on sequences of characters.               *)
(***************************************************************************)
\* String.prototype.slice(from, to): a negative index counts from the end,
\* both are clamped to [0, length], an empty range gives ''.
JsSlice(s, from, to) ==
    LET len == Len(s)
        f == IF from < 0 THEN Max(len + from, 0) ELSE Min(from, len)
        t == IF to < 0 THEN Max(len + to, 0) ELSE Min(to, len)
    IN  IF f >= t THEN <<>> ELSE SubSeq(s, f + 1, t)

\* String.prototype.slice(from)
JsSliceFrom(s, from) == JsSlice(s, from, Len(s))

\* String.prototype.substring(0, to): a negative bound is 0, a large one length.
JsSubstring0(s, to) == SubSeq(s, 1, Min(Max(to, 0), Len(s)))

(***************************************************************************)
(* Pagination results. A result is kept in parts rather than as one        *)
(* string: the header naming the url, the slice of the content, and the    *)
(* notice that follows it.                                                 *)
(*   kind    "nomore" | "slice"                                            *)
(*   header  TRUE when the text starts with "AWS Documentation from url"   *)
(*   notice  "none" | "numbered" (names start_index=next) | "unnumbered"   *)
(***************************************************************************)
NoMore(url) ==
    [kind |-> "nomore", header |-> TRUE, url |-> url, text |-> <<>>,
     notice |-> "none", next |-> 0]

\* A plausible slip: the `startIndex >= originalLength` and `!truncatedContent`
\* guards are lost, so a call past the end returns a header and an empty slice.
formatDocumentationResult_noGuard(url, content, startIndex, maxLength) ==
    LET originalLength == Len(content)
        endIndex == Min(startIndex + maxLength, originalLength)
        truncatedContent == JsSlice(content, startIndex, endIndex)
        actualContentLength == Len(truncatedContent)
        remainingContent == originalLength - (startIndex + actualContentLength)
    IN  [kind |-> "slice", header |-> TRUE, url |-> url, text |-> truncatedContent,
         notice |-> IF remainingContent > 0 THEN "numbered" ELSE "none",
         next |-> IF remainingContent > 0 THEN startIndex + actualContentLength ELSE 0]

\* A plausible slip: the end index is one short of the content length.
formatDocumentationResult_shortEnd(url, content, startIndex, maxLength) ==
    LET originalLength == Len(content)
    IN  IF startIndex >= originalLength THEN NoMore(url)
        ELSE LET endIndex == Min(startIndex + maxLength, originalLength - 1)
                 truncatedContent == JsSlice(content, startIndex, endIndex)
                 actualContentLength == Len(truncatedContent)
                 remainingContent == originalLength - (startIndex + actualContentLength)
             IN  IF truncatedContent = <<>> THEN NoMore(url)
                 ELSE [kind |-> "slice", header |-> TRUE, url |-> url,
                       text |-> truncatedContent,
                       notice |-> IF remainingContent > 0 THEN "numbered" ELSE "none",
                       next |-> IF remainingContent > 0
                                THEN startIndex + actualContentLength ELSE 0]

\* utils.ts formatDocumentationResult
formatDocumentationResult(url, content, startIndex, maxLength) ==
    LET originalLength == Len(content)
    IN  IF startIndex >= originalLength THEN NoMore(url)
        ELSE LET endIndex == Min(startIndex + maxLength, originalLength)
                 truncatedContent == JsSlice(content, startIndex, endIndex)
                 actualContentLength == Len(truncatedContent)
                 remainingContent == originalLength - (startIndex + actualContentLength)
             IN  IF truncatedContent = <<>> THEN NoMore(url)
                 ELSE [kind |-> "slice", header |-> TRUE, url |-> url,
                       text |-> truncatedContent,
                       notice |-> IF remainingContent > 0 THEN "numbered" ELSE "none",
                       next |-> IF remainingContent > 0
                                THEN startIndex + actualContentLength ELSE 0]

\* mcp-server.js McpServer.readDocumentation, the pagination of the markdown:
\* no header, no "no more content" message, and a notice without a number.
McpServerPaginate(url, markdown, start_index, max_length) ==
    LET content == IF start_index > 0 THEN JsSliceFrom(markdown, start_index)
                   ELSE markdown
        truncated == Len(content) > max_length
    IN  [kind |-> "slice", header |-> FALSE, url |-> url,
         text |-> IF truncated THEN JsSlice(content, 0, max_length) ELSE content,
         notice |-> IF truncated THEN "unnumbered" ELSE "none",
         next |-> 0]

\* tools/aws-docs readDocumentation + AWSSServerMCP.formatDocumentContent: the
\* text is cut at maxLength, there is no start index and no notice.
AwsDocsPaginate(url, content, maxLength) ==
    [kind |-> "slice", header |-> TRUE, url |-> url,
     text |-> JsSubstring0(content, maxLength),
     notice |-> "none", next |-> 0]

PaginationImpls == {"utils", "mcp-server.js", "aws-docs"}

Paginate(impl, url, content, startIndex, maxLength) ==
    CASE impl = "utils" -> formatDocumentationResult(url, content, startIndex, maxLength)
      [] impl = "mcp-server.js" -> McpServerPaginate(url, content, startIndex, maxLength)
      [] impl = "aws-docs" -> AwsDocsPaginate(url, content, maxLength)

NoResultYet == [kind |-> "none", header |-> FALSE, url |-> "", text |-> <<>>,
                notice |-> "none", next |-> 0]

PageIdle ==
    [pc |-> "idle", impl |-> "utils", url |-> "", content |-> <<>>,
     startIndex |-> 0, maxLength |-> 1, acc |-> <<>>, calls |-> 0,
     last |-> NoResultYet]

\* One call of a read_documentation pagination with drawn arguments.
PageCall ==
    /\ page.pc = "idle"
    /\ \E impl \in PaginationImpls, url \in PageUrls, c \in Contents,
          s \in StartIndexes, m \in MaxLengths :
        /\ impl = "aws-docs" => s = 0
        /\ page' = [pc |-> "called", impl |-> impl, url |-> url, content |-> c,
                    startIndex |-> s, maxLength |-> m, acc |-> <<>>, calls |-> 1,
                    last |-> Paginate(impl, url, c, s, m)]
        /\ UNCHANGED <<fn, target, rpc, now, ticks, sessions, conns>>

\* A caller starts reading a page from start_index 0 with a positive max_length.
PageStart ==
    /\ page.pc = "idle"
    /\ \E url \in PageUrls, c \in Contents, m \in 1 .. MaxMaxLength :
        /\ page' = [pc |-> "paging", impl |-> "utils", url |-> url, content |-> c,
                    startIndex |-> 0, maxLength |-> m, acc |-> <<>>, calls |-> 0,
                    last |-> NoResultYet]
        /\ UNCHANGED <<fn, target, rpc, now, ticks, sessions, conns>>

\* The caller calls formatDocumentationResult, appends the slice it got, and
\* advances start_index by the slice's length while a notice asks for more.
PageNext ==
    /\ page.pc = "paging"
    /\ LET r == formatDocumentationResult(page.url, page.content,
                                          page.startIndex, page.maxLength)
           more == r.kind = "slice" /\ r.notice # "none"
       IN  page' = [page EXCEPT !.last = r,
                                !.acc = page.acc \o r.text,
                                !.calls = page.calls + 1,
                                !.startIndex = IF more THEN page.startIndex + Len(r.text)
                                               ELSE page.startIndex,
                                !.pc = IF more THEN "paging" ELSE "done"]
    /\ UNCHANGED <<fn, target, rpc, now, ticks, sessions, conns>>

\* The caller has its answer; the next call starts afresh.
PageReturn ==
    /\ page.pc \in {"called", "done"}
    /\ page' = PageIdle
    /\ UNCHANGED <<fn, target, rpc, now, ticks, sessions, conns>>

(***************************************************************************)
(* Recommendations. The upstream answer holds the buckets highlyRated,     *)
(* journey (groups of urls, one group per intent), new and similar; an     *)
(* item is named by the bucket, the group and the place it came from.      *)
(***************************************************************************)
NoCall == [pc |-> "idle", name |-> "none"]

Item(bucket, group, index) == [bucket |-> bucket, group |-> group, index |-> index]
Bucket(name, n) == [i \in 1 .. n |-> Item(name, 0, i)]
Buckets(name) == {Bucket(name, n) : n \in 0 .. MaxBucket}

\* journey.items: no group, one group of 0..MaxBucket urls, or two groups
JourneyGroup(g, n) == [i \in 1 .. n |-> Item("journey", g, i)]
Journeys ==
    {<<>>} \cup {<<JourneyGroup(1, n)>> : n \in 0 .. MaxBucket}
           \cup {<<JourneyGroup(1, a), JourneyGroup(2, b)>> : a, b \in 1 .. MaxBucket - 1}

UpstreamData ==
    [highlyRated : Buckets("highlyRated"), journey : Journeys, new : Buckets("new"),
     similar : Buckets("similar"), recommendations : {<<>>, Bucket("recommendations", 1)}]

RECURSIVE Flatten(_)
Flatten(groups) ==
    IF groups = <<>> THEN <<>> ELSE Head(groups) \o Flatten(Tail(groups))

\* utils.ts parseRecommendationResults: the buckets in the order highlyRated,
\* journey, new, similar; it takes no max_results and cuts nothing.
parseRecommendationResults(data) ==
    data.highlyRated \o Flatten(data.journey) \o data.new \o data.similar

\* The fixed items that the code returns in place of upstream data.
GettingStarted == Item("mock", 0, 1)
AwsDocumentation == Item("mock", 0, 2)

ItemsReturned(items) == [how |-> "returned", items |-> items]
ItemsThrown == [how |-> "thrown", items |-> <<>>]

\* server-utils.ts getRecommendationsImpl: upstream data and maxResults are
\* read by nothing that shapes the result.
getRecommendationsImplItems(data, maxResults, up) ==
    IF up = "ok" THEN ItemsReturned(<<GettingStarted>>)
    ELSE ItemsReturned(<<GettingStarted, AwsDocumentation>>)

\* mcp-server.js McpServer.recommend: reads data.recommendations only; no
\* max_results.
McpServer_recommendItems(data, up) ==
    IF up = "ok" THEN ItemsReturned(data.recommendations) ELSE ItemsThrown

\* tools/aws-docs getRecommendations: a static list, recommendations.slice(0, maxResults)
AwsDocs_getRecommendations(maxResults) ==
    ItemsReturned(JsSlice(<<GettingStarted, AwsDocumentation>>, 0, maxResults))

RecImpls == {"parseRecommendationResults", "getRecommendationsImpl", "McpServer.recommend",
             "getRecommendations"}
RecUps == {"ok", "status", "throw"}

Recommend(impl, data, maxResults, up) ==
    CASE impl = "parseRecommendationResults" -> ItemsReturned(parseRecommendationResults(data))
      [] impl = "getRecommendationsImpl" -> getRecommendationsImplItems(data, maxResults, up)
      [] impl = "McpServer.recommend" -> McpServer_recommendItems(data, up)
      [] impl = "getRecommendations" -> AwsDocs_getRecommendations(maxResults)

\* One call of a recommendation helper with a drawn upstream answer.
RecCall ==
    /\ fn.pc = "idle"
    /\ \E impl \in RecImpls, data \in UpstreamData, m \in 0 .. MaxResults, up \in RecUps :
        /\ up = "ok" \/ impl \in {"getRecommendationsImpl", "McpServer.recommend"}
        /\ fn' = [pc |-> "called", name |-> "recommend", impl |-> impl, data |-> data,
                  maxResults |-> m, up |-> up, out |-> Recommend(impl, data, m, up)]
    /\ UNCHANGED <<page, target, rpc, now, ticks, sessions, conns>>

FnReturn ==
    /\ fn.pc = "called"
    /\ fn' = NoCall
    /\ UNCHANGED <<page, target, rpc, now, ticks, sessions, conns>>

(***************************************************************************)
(* Main-content selection of the HTML extractors. A document is seen by    *)
(* what each candidate container holds in it: "absent" (no such element),  *)
(* "empty" (the element is there, with nothing but white space in it),     *)
(* "text" (the element holds content).                                     *)
(***************************************************************************)
Candidates ==
    <<"main", "article", "#main-content", ".main-content", "#awsdocs-content",
      ".awsui-article", "body">>
CandidateStates == {"absent", "empty", "text"}
Documents == [DOMAIN Candidates -> CandidateStates]

Selected(i) == [kind |-> "candidate", index |-> i]
WholeDocument == [kind |-> "whole", index |-> 0]

\* utils.ts extractWithRegex, the loop over contentSelectors: the first
\* pattern with a match whose group is not blank; without one, the whole text.
extractWithRegex(doc) ==
    LET hits == {i \in DOMAIN Candidates : doc[i] = "text"}
    IN  IF hits = {} THEN WholeDocument
        ELSE Selected(CHOOSE i \in hits : \A j \in hits : i <= j)

\* utils.ts extractWithJSDOM, the chain of querySelector calls joined by ||:
\* the first element that exists, whatever it holds; document.body, which
\* jsdom always builds, stands last.
extractWithJSDOM(doc) ==
    LET found == {i \in DOMAIN Candidates : doc[i] # "absent"} \cup {Len(Candidates)}
    IN  Selected(CHOOSE i \in found : \A j \in found : i <= j)

Strategies == {"regex", "jsdom"}

\* utils.ts extractContentFromHtml: which strategy runs depends on whether
\* jsdom and turndown could be loaded.
extractContentFromHtml(strategy, doc) ==
    IF strategy = "jsdom" THEN extractWithJSDOM(doc) ELSE extractWithRegex(doc)

\* One call of the extractor on a drawn document.
ExtractCall ==
    /\ fn.pc = "idle"
    /\ \E strategy \in Strategies, doc \in Documents :
        fn' = [pc |-> "called", name |-> "extract", strategy |-> strategy, doc |-> doc,
               out |-> extractContentFromHtml(strategy, doc)]
    /\ UNCHANGED <<page, target, rpc, now, ticks, sessions, conns>>

(***************************************************************************)
(* Conversion of a page to text. A page is a tree of tagged regions under  *)
(* body: each region has a tag, may hold a chunk of content of its own (a  *)
(* heading <h1>Hi</h1>, or a paragraph with one link <p><a href="/x">doc   *)
(* </a></p>) and may hold one nested region. The textual strategy works on *)
(* the page as written, a sequence of tokens; the structural one on the    *)
(* tree.                                                                   *)
(***************************************************************************)
MinContentLength == 10

Tag(el, attr) == [el |-> el, attr |-> attr]
Tags == {Tag("main", "none"), Tag("nav", "none"), Tag("div", "feedback"),
         Tag("span", "feedback")}
\* chunk: "none" | "heading" | "link"; kids: no region or one, itself
\* without kids.
Regions ==
    LET Chunks == {"none", "heading", "link"}
        Leaves == [tag : Tags, chunk : Chunks, kids : {<<>>}]
    IN  [tag : Tags, chunk : Chunks, kids : {<<>>} \cup {<<k>> : k \in Leaves}]

\* blank: the html is the empty string.
Htmls ==
    {[blank |-> TRUE, body |-> <<>>]}
        \cup {[blank |-> FALSE, body |-> r] :
                 r \in UNION {[1 .. n -> Regions] : n \in 0 .. MaxRegions}}

\* A chunk of content is named by the place of its region in the tree.
Mark(what, id) == [what |-> what, id |-> id]

\* The length of the text that holds the chunks, sep characters between two;
\* a chunk once converted is "# Hi" or "[doc](/x)".
RECURSIVE TextLength(_, _)
TextLength(marks, sep) ==
    IF marks = {} THEN 0
    ELSE LET m == CHOOSE x \in marks : TRUE
             rest == marks \ {m}
         IN  (IF m.what = "heading" THEN 4 ELSE 9)
                 + (IF rest = {} THEN 0 ELSE sep + TextLength(rest, sep))

\* What a call returns: the text extracted (kind "text") or a placeholder
\* <e>...</e> in its place (kind "placeholder"); marks and len tell of the
\* text extracted.
Extracted(kind, marks, len) == [kind |-> kind, marks |-> marks, len |-> len]

\* The page as written.
Open(tag) == [k |-> "open", el |-> tag.el, attr |-> tag.attr, mark |-> Mark("none", <<>>)]
Close(el) == [k |-> "close", el |-> el, attr |-> "none", mark |-> Mark("none", <<>>)]
Text(what, id) == [k |-> "text", el |-> "none", attr |-> "none", mark |-> Mark(what, id)]

RECURSIVE Serialise(_, _)
Serialise(node, id) ==
    <<Open(node.tag)>>
        \o (IF node.chunk = "none" THEN <<>> ELSE <<Text(node.chunk, id)>>)
        \o (IF node.kids = <<>> THEN <<>> ELSE Serialise(node.kids[1], id \o <<1>>))
        \o <<Close(node.tag.el)>>

RECURSIVE SerialiseAll(_, _)
SerialiseAll(regions, i) ==
    IF i > Len(regions) THEN <<>>
    ELSE Serialise(regions[i], <<i>>) \o SerialiseAll(regions, i + 1)

Written(html) ==
    <<Open(Tag("html", "none")), Open(Tag("body", "none"))>>
        \o SerialiseAll(html.body, 1)
        \o <<Close("body"), Close("html")>>

\* A pattern <el ...>(.*?)</el>: the opening tag of an element el, with a
\* given class or id where the pattern asks for one.
Pattern(el, attr) == [el |-> el, attr |-> attr]

\* String.match / String.replace with a lazy pattern: the first opening tag
\* that fits, up to the first closing tag of that element name after it.
Match(toks, pat) ==
    LET opens == {i \in 1 .. Len(toks) :
                     /\ toks[i].k = "open"
                     /\ toks[i].el = pat.el
                     /\ pat.attr = "any" \/ toks[i].attr = pat.attr}
    IN  IF opens = {} THEN <<0, 0>>
        ELSE LET i == CHOOSE x \in opens : \A y \in opens : x <= y
                 closes == {j \in i + 1 .. Len(toks) : toks[j] = Close(pat.el)}
             IN  IF closes = {} THEN <<0, 0>>
                 ELSE <<i, CHOOSE x \in closes : \A y \in closes : x <= y>>

RECURSIVE ReplaceAll(_, _)
ReplaceAll(toks, pat) ==
    LET m == Match(toks, pat)
    IN  IF m[1] = 0 THEN toks
        ELSE SubSeq(toks, 1, m[1] - 1) \o ReplaceAll(SubSeq(toks, m[2] + 1, Len(toks)), pat)

contentSelectors ==
    <<Pattern("main", "any"), Pattern("article", "any"), Pattern("div", "#main-content"),
      Pattern("div", "main-content"), Pattern("div", "#awsdocs-content"),
      Pattern("div", "awsui-article"), Pattern("body", "any")>>

\* The attribute is a word of the class, or an id written with #. The pages
\* drawn hold one unwanted class, feedback, which stands for the alternation
\* feedback|breadcrumb|cookie|copyright|prev-next|page-utilities.
unwantedPatterns ==
    <<Pattern("nav", "any"), Pattern("header", "any"), Pattern("footer", "any"),
      Pattern("aside", "any"), Pattern("div", "feedback"), Pattern("div", "#tools-panel"),
      Pattern("div", "#feedback")>>

\* for (const regex of contentSelectors): the first group that is not blank,
\* or the whole content.
RECURSIVE SelectContent(_, _)
SelectContent(toks, i) ==
    IF i > Len(contentSelectors) THEN toks
    ELSE LET m == Match(toks, contentSelectors[i])
         IN  IF m[1] # 0 /\ m[2] > m[1] + 1 THEN SubSeq(toks, m[1] + 1, m[2] - 1)
             ELSE SelectContent(toks, i + 1)

RECURSIVE RemoveUnwanted(_, _)
RemoveUnwanted(toks, i) ==
    IF i > Len(unwantedPatterns) THEN toks
    ELSE RemoveUnwanted(ReplaceAll(toks, unwantedPatterns[i]), i + 1)

MarksOf(toks) == {toks[i].mark : i \in {j \in 1 .. Len(toks) : toks[j].k = "text"}}

\* utils.ts extractWithRegex, whole: selection, removal of unwanted elements
\* within the selection, conversion (tags become white space, white space
\* collapses to one blank), and the guard on the length.
extractWithRegexText(html) ==
    LET mainContent == RemoveUnwanted(SelectContent(Written(html), 1), 1)
        marks == MarksOf(mainContent)
        len == TextLength(marks, 1)
    IN  Extracted(IF len < MinContentLength THEN "placeholder" ELSE "text", marks, len)

\* unwantedSelectors of extractWithJSDOM: elements by name, and any element
\* whose class holds one of the words.
Unwanted(tag) ==
    \/ tag.el \in {"script", "style", "noscript", "meta", "link", "footer", "nav",
                   "aside", "header"}
    \/ tag.attr \in {"feedback", "breadcrumb", "cookie", "copyright", "prev-next",
                     "page-utilities", "#tools-panel"}

\* el.remove() for every unwanted element: the element goes with all it holds.
Pruned(regions) ==
    LET keep == {i \in 1 .. Len(regions) : ~Unwanted(regions[i].tag)}
    IN  {[id |-> <<i>>, tag |-> regions[i].tag, chunk |-> regions[i].chunk] : i \in keep}
        \cup {[id |-> <<i, 1>>, tag |-> regions[i].kids[1].tag,
               chunk |-> regions[i].kids[1].chunk] :
                  i \in {j \in keep : regions[j].kids # <<>>
                                        /\ ~Unwanted(regions[j].kids[1].tag)}}

\* utils.ts extractWithJSDOM, whole: removal of unwanted elements from the
\* document, document.querySelector('main') || ... || document.body, turndown
\* of the innerHTML (blocks one blank line apart), trim; no guard on the
\* length.
extractWithJSDOMText(html) ==
    LET Before(a, b) == a[1] < b[1] \/ (a[1] = b[1] /\ Len(a) < Len(b))
        Within(a, b) == Len(a) <= Len(b) /\ SubSeq(b, 1, Len(a)) = a
        nodes == Pruned(html.body)
        mains == {n \in nodes : n.tag.el = "main"}
        inner == IF mains = {} THEN nodes
                 ELSE LET first == CHOOSE n \in mains : \A o \in mains \ {n} : Before(n.id, o.id)
                      IN  {n \in nodes : Within(first.id, n.id)}
        marks == {Mark(n.chunk, n.id) : n \in {x \in inner : x.chunk # "none"}}
    IN  Extracted("text", marks, TextLength(marks, 2))

\* utils.ts extractContentFromHtml, whole: the guard on an empty string, the
\* choice of the strategy, and the catch of extractWithJSDOM that falls back
\* to extractWithRegex.
extractContentFromHtmlText(strategy, parse, html) ==
    IF html.blank THEN Extracted("placeholder", {}, 0)
    ELSE IF strategy = "jsdom" /\ parse = "ok" THEN extractWithJSDOMText(html)
    ELSE extractWithRegexText(html)

\* One call of the extractor on a drawn page.
ConvertCall ==
    /\ fn.pc = "idle"
    /\ \E strategy \in Strategies, parse \in {"ok", "throws"}, html \in Htmls :
        /\ parse = "ok" \/ strategy = "jsdom"
        /\ fn' = [pc |-> "called", name |-> "convert", strategy |-> strategy,
                  parse |-> parse, html |-> html,
                  out |-> extractContentFromHtmlText(strategy, parse, html)]
    /\ UNCHANGED <<page, target, rpc, now, ticks, sessions, conns>>

(***************************************************************************)
(* JSON-RPC requests as they arrive in an HTTP body.                       *)
(*   kind     "invalid" (not JSON) | "null" (the JSON value null) |        *)
(*            "array" (a JSON array: every property read is undefined) |   *)
(*            "object"                                                     *)
(*   jsonrpc  "2.0" | "1.0" | "absent"                                     *)
(*   id       "1" | "2" | "absent"                                         *)
(*   method   a method name | "absent"                                     *)
(*   params   given: params is present; name: params.name or "absent";     *)
(*            args: params.arguments                                       *)
(***************************************************************************)
\* URLs by what the guards read of them: scheme, host, whether the path or
\* query contains the text docs.aws.amazon.com, whether it ends in .html.
AwsPage   == [scheme |-> "https", host |-> "docs.aws.amazon.com", mentions |-> FALSE, html |-> TRUE]
AwsDir    == [scheme |-> "https", host |-> "docs.aws.amazon.com", mentions |-> FALSE, html |-> FALSE]
Example   == [scheme |-> "https", host |-> "example.com", mentions |-> FALSE, html |-> TRUE]
Mention   == [scheme |-> "https", host |-> "example.com", mentions |-> TRUE, html |-> TRUE]
Lookalike == [scheme |-> "https", host |-> "docs.aws.amazon.com.example.net", mentions |-> FALSE, html |-> TRUE]
NoUrl     == [scheme |-> "", host |-> "", mentions |-> FALSE, html |-> FALSE]
Urls == {AwsPage, AwsDir, Example, Mention, Lookalike}

\* The url is a page under the AWS documentation domain.
UnderAwsDocs(u) == u.scheme \in {"http", "https"} /\ u.host = "docs.aws.amazon.com"

\* String.prototype.includes('docs.aws.amazon.com') on the whole url.
IncludesAwsDocs(u) ==
    \/ u.host \in {"docs.aws.amazon.com", "docs.aws.amazon.com.example.net"}
    \/ u.mentions

NoArgs == [given |-> FALSE, url |-> NoUrl, keys |-> {}]
ArgsWith(keys, u) == [given |-> TRUE, url |-> u, keys |-> keys]

ReadArgs == {NoArgs, ArgsWith({}, NoUrl)} \cup {ArgsWith({"url"}, u) : u \in Urls}
SearchArgs == {NoArgs, ArgsWith({}, NoUrl), ArgsWith({"query"}, NoUrl),
               ArgsWith({"search_phrase"}, NoUrl)}
RecommendArgs == {NoArgs, ArgsWith({"content"}, NoUrl), ArgsWith({"url"}, AwsPage)}

NoParams == [given |-> FALSE, name |-> "absent", args |-> NoArgs]
CallParams ==
    {NoParams, [given |-> TRUE, name |-> "absent", args |-> NoArgs],
     [given |-> TRUE, name |-> "nope", args |-> ArgsWith({}, NoUrl)]}
    \cup {[given |-> TRUE, name |-> "read_documentation", args |-> a] : a \in ReadArgs}
    \cup {[given |-> TRUE, name |-> "search_documentation", args |-> a] : a \in SearchArgs}
    \cup {[given |-> TRUE, name |-> "recommend", args |-> a] : a \in RecommendArgs}

Versions == {"2.0", "1.0", "absent"}
ReqIds == {"1", "2", "absent"}
KnownMethods == {"initialize", "tools/list", "tools/call", "resources/list", "prompts/list"}
Methods == KnownMethods \cup {"bogus", "absent"}
ToolNames == {"search_documentation", "read_documentation", "recommend"}

Unparsed(kind) ==
    [kind |-> kind, jsonrpc |-> "absent", id |-> "absent", method |-> "absent",
     params |-> NoParams]

Bodies ==
    {Unparsed("invalid"), Unparsed("null"), Unparsed("array")}
    \cup {[kind |-> "object", jsonrpc |-> v, id |-> i, method |-> m, params |-> NoParams] :
            v \in Versions, i \in ReqIds, m \in Methods \ {"tools/call"}}
    \cup {[kind |-> "object", jsonrpc |-> v, id |-> i, method |-> "tools/call", params |-> q] :
            v \in Versions, i \in ReqIds, q \in CallParams}

\* What the upstream service does with a fetch: answers 2xx, answers with a
\* non-success status, answers 2xx with a body that is not the expected JSON,
\* fails at the network level, never answers.
Ups == {"ok", "status", "badbody", "throw", "hang"}

(***************************************************************************)
(* JSON-RPC messages as they leave the server.                             *)
(*   result.type  "none" (no result member) | "initialize" | "tools" |     *)
(*                "resources" | "prompts" | "tool"                         *)
(*   error.shape  "none" (no error member) | "object" ({code, message} and *)
(*                data unless "absent") | "string" (a bare string)         *)
(***************************************************************************)
NoResult == [type |-> "none", tools |-> <<>>, isError |-> FALSE, text |-> ""]
NoError == [shape |-> "none", code |-> 0, message |-> "", data |-> "absent"]

InitializeResult(version) ==
    [type |-> "initialize", tools |-> <<>>, isError |-> FALSE, text |-> version]
ToolsResult(names) == [type |-> "tools", tools |-> names, isError |-> FALSE, text |-> ""]
EmptyList(type) == [type |-> type, tools |-> <<>>, isError |-> FALSE, text |-> ""]
ToolResult(text) == [type |-> "tool", tools |-> <<>>, isError |-> FALSE, text |-> text]
ToolError(text) == [type |-> "tool", tools |-> <<>>, isError |-> TRUE, text |-> text]

\* mcp-server.js createSuccessResponse, and the success literals of
\* transports.ts and index.ts
createSuccessResponse(id, result) ==
    [jsonrpc |-> "2.0", id |-> id, result |-> result, error |-> NoError]

\* mcp-server.js createErrorResponse, and the error literals of transports.ts
\* and index.ts (which may add `data`)
createErrorResponse(id, code, message, data) ==
    [jsonrpc |-> "2.0", id |-> id, result |-> NoResult,
     error |-> [shape |-> "object", code |-> code, message |-> message, data |-> data]]

\* worker.js handleSSE catch: { error: `Processing error: ...` }
ProcessingError ==
    [jsonrpc |-> "absent", id |-> "absent", result |-> NoResult,
     error |-> [shape |-> "string", code |-> 0, message |-> "Processing error",
                data |-> "absent"]]

\* A response body that is no JSON-RPC message (plain text, a status object).
NotRpc == [jsonrpc |-> "absent", id |-> "absent", result |-> NoResult, error |-> NoError]

\* What a handler hands back: the message and the upstream fetches it issued.
\* thrown: the handler threw instead of returning; hung: it never returned.
Returned(msg, fetches) == [how |-> "returned", msg |-> msg, fetches |-> fetches]
Thrown(fetches) == [how |-> "thrown", msg |-> NotRpc, fetches |-> fetches]
Hung(fetches) == [how |-> "hung", msg |-> NotRpc, fetches |-> fetches]

Fetch(what, u) == [what |-> what, url |-> u]

(***************************************************************************)
(* Tool handlers. A tool outcome is the result it returned (or that it     *)
(* threw, or never returned) and the upstream fetches it issued.           *)
(***************************************************************************)
ToolReturned(result, fetches) == [how |-> "returned", result |-> result, fetches |-> fetches]
ToolThrew(fetches) == [how |-> "thrown", result |-> NoResult, fetches |-> fetches]
ToolHung(fetches) == [how |-> "hung", result |-> NoResult, fetches |-> fetches]

\* mcp-server.js:214 url.match(/^https?:\/\/docs\.aws\.amazon\.com\//)
McpServerUrlRegex(u) == u.scheme \in {"http", "https"} /\ u.host = "docs.aws.amazon.com"

\* mcp-server.js McpServer.readDocumentation: throws on a missing or foreign
\* url before fetching; the fetch has no timeout.
McpServer_readDocumentation(args, up) ==
    IF ~args.given \/ "url" \notin args.keys THEN ToolThrew(<<>>)
    ELSE IF ~McpServerUrlRegex(args.url) THEN ToolThrew(<<>>)
    ELSE IF ~args.url.html THEN ToolThrew(<<>>)
    ELSE LET f == <<Fetch("doc", args.url)>>
         IN  CASE up \in {"ok", "badbody"} -> ToolReturned(ToolResult("doc"), f)
               [] up \in {"status", "throw"} -> ToolThrew(f)
               [] up = "hang" -> ToolHung(f)

\* mcp-server.js McpServer.searchDocumentation
McpServer_searchDocumentation(args, up) ==
    IF ~args.given THEN ToolThrew(<<>>)
    ELSE LET f == <<Fetch("search", NoUrl)>>
         IN  CASE up = "ok" -> ToolReturned(ToolResult("search_results"), f)
               [] up \in {"status", "badbody", "throw"} -> ToolThrew(f)
               [] up = "hang" -> ToolHung(f)

\* mcp-server.js McpServer.recommend
McpServer_recommend(args, up) ==
    IF ~args.given THEN ToolThrew(<<>>)
    ELSE LET f == <<Fetch("recommend", NoUrl)>>
         IN  CASE up = "ok" -> ToolReturned(ToolResult("recommendations"), f)
               [] up \in {"status", "badbody", "throw"} -> ToolThrew(f)
               [] up = "hang" -> ToolHung(f)

\* mcp-server.js McpServer.handleToolsCall
handleToolsCall(params, up) ==
    IF ~params.given THEN ToolThrew(<<>>)
    ELSE CASE params.name = "read_documentation" ->
                McpServer_readDocumentation(params.args, up)
           [] params.name = "search_documentation" ->
                McpServer_searchDocumentation(params.args, up)
           [] params.name = "recommend" -> McpServer_recommend(params.args, up)
           [] OTHER -> ToolThrew(<<>>)

McpServerTools == <<"read_documentation", "search_documentation", "recommend">>

\* A plausible slip: the default case of the switch is lost and an unknown
\* method falls through to createSuccessResponse.
handleRequest_noDefault(request, up) ==
    IF request.kind = "null" THEN Thrown(<<>>)
    ELSE IF request.jsonrpc # "2.0"
    THEN Returned(createErrorResponse(request.id, -32600, "Invalid Request", "absent"), <<>>)
    ELSE CASE request.method = "initialize" ->
                Returned(createSuccessResponse(request.id, InitializeResult("1.0.0")), <<>>)
           [] request.method = "tools/list" ->
                Returned(createSuccessResponse(request.id, ToolsResult(McpServerTools)), <<>>)
           [] request.method = "tools/call" ->
                (LET t == handleToolsCall(request.params, up)
                 IN  CASE t.how = "returned" ->
                            Returned(createSuccessResponse(request.id, t.result), t.fetches)
                       [] t.how = "thrown" ->
                            Returned(createErrorResponse(request.id, -32603,
                                                         "Internal error", "absent"), t.fetches)
                       [] t.how = "hung" -> Hung(t.fetches))
           [] request.method = "resources/list" ->
                Returned(createSuccessResponse(request.id, EmptyList("resources")), <<>>)
           [] request.method = "prompts/list" ->
                Returned(createSuccessResponse(request.id, EmptyList("prompts")), <<>>)
           [] OTHER ->
                Returned(createSuccessResponse(request.id, NoResult), <<>>)

\* mcp-server.js McpServer.handleRequest. Destructuring null throws before the
\* try block; a throw of a tool handler becomes the -32603 error.
handleRequest(request, up) ==
    IF request.kind = "null" THEN Thrown(<<>>)
    ELSE IF request.jsonrpc # "2.0"
    THEN Returned(createErrorResponse(request.id, -32600, "Invalid Request", "absent"), <<>>)
    ELSE CASE request.method = "initialize" ->
                Returned(createSuccessResponse(request.id, InitializeResult("1.0.0")), <<>>)
           [] request.method = "tools/list" ->
                Returned(createSuccessResponse(request.id, ToolsResult(McpServerTools)), <<>>)
           [] request.method = "tools/call" ->
                (LET t == handleToolsCall(request.params, up)
                 IN  CASE t.how = "returned" ->
                            Returned(createSuccessResponse(request.id, t.result), t.fetches)
                       [] t.how = "thrown" ->
                            Returned(createErrorResponse(request.id, -32603,
                                                         "Internal error", "absent"), t.fetches)
                       [] t.how = "hung" -> Hung(t.fetches))
           [] request.method = "resources/list" ->
                Returned(createSuccessResponse(request.id, EmptyList("resources")), <<>>)
           [] request.method = "prompts/list" ->
                Returned(createSuccessResponse(request.id, EmptyList("prompts")), <<>>)
           [] OTHER ->
                Returned(createErrorResponse(request.id, -32601, "Method not found", "absent"),
                         <<>>)

\* server-utils.ts readDocumentationImpl: never throws; every failure comes
\* back as the text it returns. fetch('' + '?session=..') throws on the
\* invalid URL before any request leaves; a hung fetch is aborted after 30 s.
readDocumentationImpl(urlStr, up) ==
    IF urlStr = NoUrl THEN ToolReturned(ToolResult("fetch_failed"), <<>>)
    ELSE LET f == <<Fetch("doc", urlStr)>>
         IN  CASE up \in {"ok", "badbody"} -> ToolReturned(ToolResult("doc"), f)
               [] up = "status" -> ToolReturned(ToolResult("status_failed"), f)
               [] up \in {"throw", "hang"} -> ToolReturned(ToolResult("fetch_failed"), f)

\* A plausible slip: a failed search request is sent once more before the
\* mock results are returned.
searchDocumentationImpl_retry(up) ==
    LET f == <<Fetch("search", NoUrl)>>
    IN  CASE up = "ok" -> ToolReturned(ToolResult("search_results"), f)
          [] OTHER -> ToolReturned(ToolResult("mock_search_results"), f \o f)

\* server-utils.ts searchDocumentationImpl: mock results on every failure.
searchDocumentationImpl(up) ==
    LET f == <<Fetch("search", NoUrl)>>
    IN  CASE up = "ok" -> ToolReturned(ToolResult("search_results"), f)
          [] OTHER -> ToolReturned(ToolResult("mock_search_results"), f)

\* server-utils.ts getRecommendationsImpl: mock recommendations on every path,
\* the successful one included.
getRecommendationsImpl(up) ==
    ToolReturned(ToolResult("mock_recommendations"), <<Fetch("recommend", NoUrl)>>)

\* index.ts fetch, case 'tools/call': body.params?.name, body.params?.arguments || {}
IndexToolsCall(params, up) ==
    LET args == params.args
        url == IF args.given /\ "url" \in args.keys THEN args.url ELSE NoUrl
    IN  CASE params.name = "search_documentation" -> searchDocumentationImpl(up)
          [] params.name = "read_documentation" -> readDocumentationImpl(url, up)
          [] params.name = "recommend" -> getRecommendationsImpl(up)
          [] OTHER -> ToolReturned(ToolError("unknown_tool"), <<>>)

IndexTools == <<"search_documentation", "read_documentation", "recommend">>

\* tools/aws-docs readDocumentation: throws on a url that does not contain
\* docs.aws.amazon.com and on every failure of the fetch; the fetch has no
\* timeout.
AwsDocs_readDocumentation(url, up) ==
    IF ~IncludesAwsDocs(url) THEN ToolThrew(<<>>)
    ELSE LET f == <<Fetch("doc", url)>>
         IN  CASE up \in {"ok", "badbody"} -> ToolReturned(ToolResult("doc"), f)
               [] up \in {"status", "throw"} -> ToolThrew(f)
               [] up = "hang" -> ToolHung(f)

\* The required member of each zod schema of mcp-server.ts (38-52).
ZodRequired(name) ==
    CASE name = "search_documentation" -> "query"
      [] name = "read_documentation" -> "url"
      [] name = "recommend" -> "content"

\* mcp-server.ts setupHandlers, the CallToolRequestSchema handler (stdio
\* server): Schema.parse(args) throws a ZodError on arguments that do not fit,
\* and the catch rethrows everything as an McpError; searchDocumentation and
\* getRecommendations of tools/aws-docs return fixed lists without a fetch.
CallToolRequestHandler(params, up) ==
    IF params.name \notin ToolNames THEN ToolThrew(<<>>)
    ELSE IF ~params.args.given \/ ZodRequired(params.name) \notin params.args.keys
    THEN ToolThrew(<<>>)
    ELSE CASE params.name = "search_documentation" ->
                ToolReturned(ToolResult("mock_search_results"), <<>>)
           [] params.name = "read_documentation" ->
                AwsDocs_readDocumentation(params.args.url, up)
           [] params.name = "recommend" ->
                ToolReturned(ToolResult("mock_recommendations"), <<>>)

\* index.ts fetch, the POST /sse and POST /sse/message branch: request.json()
\* or body.method on null throws into the catch; the jsonrpc member is never read.
IndexDispatch(body, up) ==
    IF body.kind \in {"invalid", "null"}
    THEN Returned(createErrorResponse("null", -32603, "Internal error", "absent"), <<>>)
    ELSE CASE body.method = "initialize" ->
                Returned(createSuccessResponse(body.id, InitializeResult("1.0.0")), <<>>)
           [] body.method = "tools/list" ->
                Returned(createSuccessResponse(body.id, ToolsResult(IndexTools)), <<>>)
           [] body.method = "tools/call" ->
                (LET t == IndexToolsCall(body.params, up)
                 IN  Returned(createSuccessResponse(body.id, t.result), t.fetches))
           [] OTHER ->
                Returned(createErrorResponse(body.id, -32601, "Method not found", "absent"),
                         <<>>)

\* transports.ts POST /mcp and POST /messages, the part after the body is
\* read: c.req.json() or request.method on null throws; only initialize is
\* implemented; the jsonrpc member is never read.
TransportsDispatch(request, note) ==
    IF request.kind \in {"invalid", "null"} THEN Thrown(<<>>)
    ELSE IF request.method = "initialize"
    THEN Returned(createSuccessResponse(request.id, InitializeResult("1.0.0-typescript")),
                  <<>>)
    ELSE Returned(createErrorResponse(request.id, -32601, "Method not found", note), <<>>)

\* The text after `Method ${request.method}` in the data member of the -32601
\* error: transports.ts:102 for POST /mcp, transports.ts:238 for POST /messages.
McpNote == "not implemented in simplified transport"
MessagesNote == "not implemented yet"

(***************************************************************************)
(* HTTP exchanges.                                                         *)
(*   status   the HTTP status                                              *)
(*   framing  "json" (a JSON body) | "sse" (a `data:` frame in the body    *)
(*            of the POST's own response) | "text" | "none"                *)
(*   layer    what produced the body: "dispatch" (the method switch),      *)
(*            "catch" (the transport's catch block), "guard" (the session  *)
(*            check), "route" (the router), "info" (a static document)     *)
(***************************************************************************)
Resp(status, framing, layer, msg) ==
    [status |-> status, framing |-> framing, layer |-> layer, msg |-> msg]
NoResp == Resp(0, "none", "none", NotRpc)

\* transports.ts:198 c.json({ error: 'Invalid session' }, 400)
InvalidSession ==
    [jsonrpc |-> "absent", id |-> "absent", result |-> NoResult,
     error |-> [shape |-> "string", code |-> 0, message |-> "Invalid session",
                data |-> "absent"]]

\* phase: "none" before any request, "awaiting" while POST /messages is
\* suspended at `await c.req.json()`, "hung" when the handler never returns,
\* "done" otherwise. idle: the session that a POST /messages names had, when
\* the request arrived, received no message for longer than maxAge. alive: the
\* session named by an accepted POST /messages is still in the session set.
NoExchange ==
    [phase |-> "none", ep |-> "", sid |-> 0, body |-> Unparsed("invalid"),
     up |-> "unused", resp |-> NoResp, fetches |-> <<>>, idle |-> FALSE, alive |-> FALSE]

Exchange(ep, sid, body, up, resp, fetches) ==
    [phase |-> "done", ep |-> ep, sid |-> sid, body |-> body,
     up |-> IF fetches = <<>> THEN "unused" ELSE up,
     resp |-> resp, fetches |-> fetches, idle |-> FALSE, alive |-> FALSE]

HungExchange(ep, sid, body, up, fetches) ==
    [phase |-> "hung", ep |-> ep, sid |-> sid, body |-> body, up |-> up,
     resp |-> NoResp, fetches |-> fetches, idle |-> FALSE, alive |-> FALSE]

\* A response is sent in the turn of the event loop in which its handler
\* returns: no timer callback and no other request runs in between.
Quiet == rpc.phase \notin {"done", "hung"}

Targets == {"transports", "index", "worker"}
NoSid == 0
SessionIds == 1 .. MaxSessions
SidParams == {NoSid} \cup SessionIds

(***************************************************************************)
(* The session set of transports.ts and the SSE connections.               *)
(***************************************************************************)
HeartbeatInterval == 30000
HardCloseDelay == 5 * 60 * 1000
maxAge == 30 * 60 * 1000

NoSessions == [id \in {} |-> 0]

\* transports.ts cleanupOldSessions, at time t
cleanupOldSessions(ss, t) ==
    [id \in {i \in DOMAIN ss : ~(t - ss[i].lastActivity > maxAge)} |-> ss[id]]

\* One run of cleanupOldSessions over the session set, at the time now.
Sweep ==
    /\ fn.pc = "idle"
    /\ fn' = [pc |-> "called", name |-> "sweep", before |-> sessions, at |-> now]
    /\ sessions' = cleanupOldSessions(sessions, now)
    /\ UNCHANGED <<page, target, rpc, now, ticks, conns>>

\* generateSessionId / crypto.randomUUID: an id never issued before
generateSessionId == Cardinality(DOMAIN conns) + 1

EndpointFrame(path, id) == [event |-> "endpoint", path |-> path, sid |-> id]
HeartbeatFrame == [event |-> "heartbeat", path |-> "", sid |-> NoSid]

\* A plausible slip: the interval's first tick is written before the
\* endpoint announcement.
Streaming_heartbeatFirst(path, id, t) ==
    [frames |-> <<HeartbeatFrame, EndpointFrame(path, id)>>, stream |-> "open",
     heartbeat |-> TRUE, nextBeat |-> t + HeartbeatInterval,
     timer |-> TRUE, due |-> t + HardCloseDelay, lastActivity |-> t]

\* A plausible slip: the hard-close timeout is never set.
Streaming_noTimeout(path, id, t) ==
    [frames |-> <<EndpointFrame(path, id)>>, stream |-> "open",
     heartbeat |-> TRUE, nextBeat |-> t + HeartbeatInterval,
     timer |-> FALSE, due |-> 0, lastActivity |-> t]

\* The state of one GET /sse response. stream: "open" | "closed" (by
\* controller.close()) | "cancelled" (the client went away) | "ended" (a
\* complete body, not a stream). heartbeat: the interval is set. timer: the
\* hard-close timeout is pending. lastActivity: when the session was created
\* or last accepted a message; unlike the session's own field it outlives the
\* session, so that a later lookup can be compared with it.
Streaming(path, id, t) ==
    [frames |-> <<EndpointFrame(path, id)>>, stream |-> "open",
     heartbeat |-> TRUE, nextBeat |-> t + HeartbeatInterval,
     timer |-> TRUE, due |-> t + HardCloseDelay, lastActivity |-> t]
OneShot(path, id) ==
    [frames |-> <<EndpointFrame(path, id)>>, stream |-> "ended",
     heartbeat |-> FALSE, nextBeat |-> 0, timer |-> FALSE, due |-> 0,
     lastActivity |-> 0]

Put(f, k, v) == [x \in DOMAIN f \cup {k} |-> IF x = k THEN v ELSE f[x]]
Remove(f, k) == [x \in DOMAIN f \ {k} |-> f[x]]

\* transports.ts GET /sse: sweep, create the session, start the stream with
\* the endpoint frame, set the heartbeat interval and the hard-close timeout.
GetSse ==
    /\ target = "transports"
    /\ Quiet
    /\ Cardinality(DOMAIN conns) < MaxSessions
    /\ LET sessionId == generateSessionId
       IN  /\ sessions' = Put(cleanupOldSessions(sessions, now), sessionId,
                              [id |-> sessionId, createdAt |-> now, lastActivity |-> now])
           /\ conns' = Put(conns, sessionId, Streaming("/messages", sessionId, now))
    /\ UNCHANGED <<page, fn, target, rpc, now, ticks>>

\* index.ts GET /sse: a complete response holding the endpoint frame; the id
\* is stored nowhere.
IndexGetSse ==
    /\ target = "index"
    /\ Quiet
    /\ Cardinality(DOMAIN conns) < MaxSessions
    /\ conns' = Put(conns, generateSessionId, OneShot("/sse/message", generateSessionId))
    /\ UNCHANGED <<page, fn, target, rpc, now, ticks, sessions>>

\* worker.js handleSSE, GET: the same.
WorkerGetSse ==
    /\ target = "worker"
    /\ Quiet
    /\ Cardinality(DOMAIN conns) < MaxSessions
    /\ conns' = Put(conns, generateSessionId, OneShot("/sse/message", generateSessionId))
    /\ UNCHANGED <<page, fn, target, rpc, now, ticks, sessions>>

\* The interval callback of transports.ts:159-165: enqueue throws once the
\* stream is closed or cancelled, and the catch clears the interval. The
\* callbacks that fell due during one advance of the clock are shown as one.
Heartbeat ==
    \E id \in DOMAIN conns :
        /\ Quiet
        /\ conns[id].heartbeat
        /\ now >= conns[id].nextBeat
        /\ conns' = [conns EXCEPT ![id] =
                        IF conns[id].stream = "open"
                        THEN [@ EXCEPT !.frames = Append(@, HeartbeatFrame),
                                       !.nextBeat = now + HeartbeatInterval]
                        ELSE [@ EXCEPT !.heartbeat = FALSE]]
        /\ UNCHANGED <<page, fn, target, rpc, now, ticks, sessions>>

\* A plausible slip: the timeout callback closes the stream but leaves the
\* session in the set.
HardCloseTimer_keepsSession ==
    \E id \in DOMAIN conns :
        /\ Quiet
        /\ conns[id].timer
        /\ now >= conns[id].due
        /\ ~(conns[id].heartbeat /\ conns[id].nextBeat < conns[id].due)
        /\ conns' = [conns EXCEPT ![id] =
                        [@ EXCEPT !.timer = FALSE, !.heartbeat = FALSE,
                                  !.stream = IF @ = "open" THEN "closed" ELSE @]]
        /\ UNCHANGED <<page, fn, target, rpc, now, ticks, sessions>>

\* A plausible slip: the timeout callback clears the interval and deletes the
\* session but does not call controller.close().
HardCloseTimer_leavesOpen ==
    \E id \in DOMAIN conns :
        /\ Quiet
        /\ conns[id].timer
        /\ now >= conns[id].due
        /\ ~(conns[id].heartbeat /\ conns[id].nextBeat < conns[id].due)
        /\ conns' = [conns EXCEPT ![id] = [@ EXCEPT !.timer = FALSE, !.heartbeat = FALSE]]
        /\ sessions' = Remove(sessions, id)
        /\ UNCHANGED <<page, fn, target, rpc, now, ticks>>

\* The timeout callback of transports.ts:168-176: clearInterval, close the
\* stream (a throw of close() is swallowed), delete the session.
HardCloseTimer ==
    \E id \in DOMAIN conns :
        /\ Quiet
        /\ conns[id].timer
        /\ now >= conns[id].due
        /\ ~(conns[id].heartbeat /\ conns[id].nextBeat < conns[id].due)
        /\ conns' = [conns EXCEPT ![id] =
                        [@ EXCEPT !.timer = FALSE, !.heartbeat = FALSE,
                                  !.stream = IF @ = "open" THEN "closed" ELSE @]]
        /\ sessions' = Remove(sessions, id)
        /\ UNCHANGED <<page, fn, target, rpc, now, ticks>>

\* The client drops the GET /sse connection. The stream has no cancel
\* callback, so nothing else changes.
ClientDisconnect ==
    \E id \in DOMAIN conns :
        /\ Quiet
        /\ conns[id].stream = "open"
        /\ conns' = [conns EXCEPT ![id].stream = "cancelled"]
        /\ UNCHANGED <<page, fn, target, rpc, now, ticks, sessions>>

\* Time passes, by the delay of the hard-close timeout or by the inactivity
\* limit, and no further than the next hard-close timeout that is pending:
\* the callback of a timeout runs when it is due.
Delays == {HardCloseDelay, maxAge}
Tick ==
    /\ Quiet
    /\ ticks < MaxTicks
    /\ \E d \in Delays :
        /\ \A id \in DOMAIN conns : conns[id].timer => now + d <= conns[id].due
        /\ now' = now + d
    /\ ticks' = ticks + 1
    /\ UNCHANGED <<page, fn, target, rpc, sessions, conns>>

\* Time passes until the next hard-close timeout that is pending falls due.
TimePasses ==
    /\ Quiet
    /\ \E id \in DOMAIN conns :
        /\ conns[id].timer
        /\ now < conns[id].due
        /\ \A other \in DOMAIN conns : conns[other].timer => conns[id].due <= conns[other].due
        /\ now' = conns[id].due
    /\ UNCHANGED <<page, fn, target, rpc, ticks, sessions, conns>>

(***************************************************************************)
(* The request handlers, one action each. B is the set of bodies drawn.    *)
(***************************************************************************)
\* transports.ts POST /mcp: the response to a body
PostMcpResponse(body) ==
    LET out == TransportsDispatch(body, McpNote)
    IN  IF out.how = "thrown"
        THEN Resp(500, "json", "catch",
                  createErrorResponse("null", -32603, "Internal error", "error.message"))
        ELSE Resp(200, "json", "dispatch", out.msg)

\* transports.ts POST /messages: the response to a body, once the session
\* check has let it through
PostMessagesResponse(body) ==
    LET out == TransportsDispatch(body, MessagesNote)
    IN  IF out.how = "thrown"
        THEN Resp(200, "sse", "catch",
                  createErrorResponse("null", -32603, "Internal error", "error.message"))
        ELSE Resp(200, "sse", "dispatch", out.msg)

\* A plausible slip: the session check of POST /messages is copied into
\* POST /mcp.
PostMcp_sessionCheck(B) ==
    /\ target = "transports"
    /\ rpc.phase = "none"
    /\ \E body \in B :
        /\ rpc' = Exchange("POST /mcp", NoSid, body, "unused",
                           IF DOMAIN sessions = {}
                           THEN Resp(400, "json", "guard", InvalidSession)
                           ELSE PostMcpResponse(body), <<>>)
        /\ UNCHANGED <<page, fn, target, now, ticks, sessions, conns>>

\* transports.ts POST /mcp
PostMcp(B) ==
    /\ target = "transports"
    /\ rpc.phase = "none"
    /\ \E body \in B :
        /\ rpc' = Exchange("POST /mcp", NoSid, body, "unused", PostMcpResponse(body), <<>>)
        /\ UNCHANGED <<page, fn, target, now, ticks, sessions, conns>>

\* transports.ts GET /mcp
GetMcp ==
    /\ target = "transports"
    /\ rpc.phase = "none"
    /\ rpc' = Exchange("GET /mcp", NoSid, Unparsed("invalid"), "unused",
                       Resp(200, "json", "info", NotRpc), <<>>)
    /\ UNCHANGED <<page, fn, target, now, ticks, sessions, conns>>

\* A plausible slip: the accepted request leaves lastActivity as it was.
PostMessagesBegin_noRefresh(B) ==
    /\ target = "transports"
    /\ rpc.phase = "none"
    /\ \E sessionId \in SidParams, body \in B :
        /\ LET idle == /\ sessionId \in DOMAIN conns
                       /\ now - conns[sessionId].lastActivity > maxAge
           IN  IF sessionId = NoSid \/ sessionId \notin DOMAIN sessions
               THEN rpc' = [Exchange("POST /messages", sessionId, body, "unused",
                                     Resp(400, "json", "guard", InvalidSession),
                                     <<>>) EXCEPT !.idle = idle]
               ELSE rpc' = [phase |-> "awaiting", ep |-> "POST /messages",
                            sid |-> sessionId, body |-> body, up |-> "unused",
                            resp |-> NoResp, fetches |-> <<>>,
                            idle |-> idle, alive |-> TRUE]
        /\ UNCHANGED <<page, fn, target, now, ticks, sessions, conns>>

\* transports.ts POST /messages up to `await c.req.json()`: the session check
\* and the refresh of lastActivity.
PostMessagesBegin(B) ==
    /\ target = "transports"
    /\ rpc.phase = "none"
    /\ \E sessionId \in SidParams, body \in B :
        /\ LET idle == /\ sessionId \in DOMAIN conns
                       /\ now - conns[sessionId].lastActivity > maxAge
           IN  IF sessionId = NoSid \/ sessionId \notin DOMAIN sessions
               THEN /\ rpc' = [Exchange("POST /messages", sessionId, body, "unused",
                                        Resp(400, "json", "guard", InvalidSession),
                                        <<>>) EXCEPT !.idle = idle]
                    /\ UNCHANGED <<sessions, conns>>
               ELSE /\ rpc' = [phase |-> "awaiting", ep |-> "POST /messages",
                               sid |-> sessionId, body |-> body, up |-> "unused",
                               resp |-> NoResp, fetches |-> <<>>,
                               idle |-> idle, alive |-> TRUE]
                    /\ sessions' = [sessions EXCEPT ![sessionId].lastActivity = now]
                    /\ conns' = [conns EXCEPT ![sessionId].lastActivity = now]
        /\ UNCHANGED <<page, fn, target, now, ticks>>

\* transports.ts POST /messages from `await c.req.json()` on: the answer is
\* the body of the POST's own response, framed as an SSE data frame.
PostMessagesFinish ==
    /\ rpc.phase = "awaiting"
    /\ rpc' = [rpc EXCEPT !.phase = "done", !.resp = PostMessagesResponse(rpc.body),
                          !.alive = rpc.sid \in DOMAIN sessions]
    /\ UNCHANGED <<page, fn, target, now, ticks, sessions, conns>>

\* index.ts fetch, POST /sse and POST /sse/message: the sessionId of the query
\* is never read.
IndexPost(B) ==
    /\ target = "index"
    /\ rpc.phase = "none"
    /\ \E path \in {"/sse", "/sse/message"}, sessionId \in SidParams, body \in B,
          up \in Ups :
        /\ up = "ok" \/ body.method = "tools/call"
        /\ LET out == IndexDispatch(body, up)
               layer == IF body.kind \in {"invalid", "null"} THEN "catch" ELSE "dispatch"
           IN  rpc' = Exchange("POST " \o path, sessionId, body, up,
                               Resp(200, "sse", layer, out.msg), out.fetches)
        /\ UNCHANGED <<page, fn, target, now, ticks, sessions, conns>>

\* worker.js handleSSE for a POST: what it answers, or that it hangs.
handleSSE(path, sessionId, body, up) ==
    IF path # "/sse/message"
    THEN [how |-> "returned", resp |-> Resp(405, "text", "route", NotRpc), fetches |-> <<>>]
    ELSE IF sessionId = NoSid
    THEN [how |-> "returned", resp |-> Resp(400, "text", "guard", NotRpc), fetches |-> <<>>]
    ELSE IF body.kind = "invalid"
    THEN [how |-> "returned", resp |-> Resp(200, "sse", "catch", ProcessingError),
          fetches |-> <<>>]
    ELSE LET out == handleRequest(body, up)
         IN  CASE out.how = "returned" ->
                    [how |-> "returned", resp |-> Resp(200, "sse", "dispatch", out.msg),
                     fetches |-> out.fetches]
               [] out.how = "thrown" ->
                    [how |-> "returned", resp |-> Resp(200, "sse", "catch", ProcessingError),
                     fetches |-> out.fetches]
               [] out.how = "hung" ->
                    [how |-> "hung", resp |-> NoResp, fetches |-> out.fetches]

\* worker.js fetch, POST /sse and POST /sse/message
WorkerPost(B) ==
    /\ target = "worker"
    /\ rpc.phase = "none"
    /\ \E path \in {"/sse", "/sse/message"}, sessionId \in SidParams, body \in B,
          up \in Ups :
        /\ up = "ok" \/ body.method = "tools/call"
        /\ LET out == handleSSE(path, sessionId, body, up)
           IN  rpc' = IF out.how = "hung"
                      THEN HungExchange("POST " \o path, sessionId, body, up, out.fetches)
                      ELSE Exchange("POST " \o path, sessionId, body, up, out.resp,
                                    out.fetches)
        /\ UNCHANGED <<page, fn, target, now, ticks, sessions, conns>>

\* The exchange is over: the response was sent (or, for a handler that hangs,
\* the client gave up); the next request is a new exchange.
RequestDone ==
    /\ rpc.phase \in {"done", "hung"}
    /\ rpc' = NoExchange
    /\ UNCHANGED <<page, fn, target, now, ticks, sessions, conns>>

(***************************************************************************)
(* Specifications.                                                         *)
(***************************************************************************)
InitPage ==
    /\ page = PageIdle
    /\ fn = NoCall
    /\ target = "transports"
    /\ rpc = NoExchange
    /\ now = 0
    /\ ticks = 0
    /\ sessions = NoSessions
    /\ conns = NoSessions

NextPage == PageCall \/ PageStart \/ PageNext \/ PageReturn

SpecPage == InitPage /\ [][NextPage]_vars

InitRec ==
    /\ page = PageIdle
    /\ fn = NoCall
    /\ target = "index"
    /\ rpc = NoExchange
    /\ now = 0
    /\ ticks = 0
    /\ sessions = NoSessions
    /\ conns = NoSessions

NextRec == RecCall \/ FnReturn

SpecRec == InitRec /\ [][NextRec]_vars

NextExtract == ExtractCall \/ FnReturn

SpecExtract == InitRec /\ [][NextExtract]_vars

NextConvert == ConvertCall \/ FnReturn

SpecConvert == InitRec /\ [][NextConvert]_vars

\* cleanupOldSessions on a drawn session set: sessions created and last active
\* within MaxSkew ms of time 0, swept within MaxSkew ms of the inactivity
\* limit.
InitSweep ==
    /\ page = PageIdle
    /\ fn = NoCall
    /\ target = "transports"
    /\ rpc = NoExchange
    /\ now \in maxAge .. maxAge + MaxSkew
    /\ ticks = 0
    /\ \E ids \in SUBSET SessionIds :
          sessions \in [ids -> [id : SessionIds, createdAt : 0 .. MaxSkew,
                                lastActivity : 0 .. MaxSkew]]
    /\ \A id \in DOMAIN sessions :
          sessions[id].id = id /\ sessions[id].createdAt <= sessions[id].lastActivity
    /\ conns = NoSessions

NextSweep == Sweep \/ FnReturn

SpecSweep == InitSweep /\ [][NextSweep]_vars

\* One deployment target, requests one after another, no clock.
Init ==
    /\ page = PageIdle
    /\ fn = NoCall
    /\ target \in Targets
    /\ rpc = NoExchange
    /\ now = 0
    /\ ticks = 0
    /\ sessions = NoSessions
    /\ conns = NoSessions

Next ==
    \/ GetSse
    \/ IndexGetSse
    \/ WorkerGetSse
    \/ PostMcp(Bodies)
    \/ GetMcp
    \/ PostMessagesBegin(Bodies)
    \/ PostMessagesFinish
    \/ IndexPost(Bodies)
    \/ WorkerPost(Bodies)
    \/ RequestDone

Spec == Init /\ [][Next]_vars

\* The SSE endpoints of a deployment target under a clock: the Hono app of
\* transports.ts with its session set and timers, and the one-shot GET /sse
\* and the POST endpoints of index.ts and worker.js.
SessBodies ==
    {Unparsed("invalid"),
     [kind |-> "object", jsonrpc |-> "2.0", id |-> "1", method |-> "initialize",
      params |-> NoParams]}

InitSess ==
    /\ page = PageIdle
    /\ fn = NoCall
    /\ target \in Targets
    /\ rpc = NoExchange
    /\ now = 0
    /\ ticks = 0
    /\ sessions = NoSessions
    /\ conns = NoSessions

NextSess ==
    \/ Tick
    \/ GetSse
    \/ IndexGetSse
    \/ WorkerGetSse
    \/ IndexPost(SessBodies)
    \/ WorkerPost(SessBodies)
    \/ Heartbeat
    \/ HardCloseTimer
    \/ ClientDisconnect
    \/ PostMessagesBegin(SessBodies)
    \/ PostMessagesFinish
    \/ RequestDone

SpecSess == InitSess /\ [][NextSess]_vars

\* The SSE endpoints of transports.ts with timers that fire: time passes as
\* long as a timeout is pending, a callback that is due runs however many
\* requests arrive, and every request comes to its end.
InitLeak ==
    /\ page = PageIdle
    /\ fn = NoCall
    /\ target = "transports"
    /\ rpc = NoExchange
    /\ now = 0
    /\ ticks = 0
    /\ sessions = NoSessions
    /\ conns = NoSessions

NextLeak ==
    \/ TimePasses
    \/ GetSse
    \/ Heartbeat
    \/ HardCloseTimer
    \/ ClientDisconnect
    \/ PostMessagesBegin(SessBodies)
    \/ PostMessagesFinish
    \/ RequestDone

SpecLeak ==
    /\ InitLeak
    /\ [][NextLeak]_vars
    /\ SF_vars(TimePasses)
    /\ SF_vars(Heartbeat)
    /\ SF_vars(HardCloseTimer)
    /\ WF_vars(PostMessagesFinish)
    /\ WF_vars(RequestDone)

(***************************************************************************)
(* Claims about pagination, checked under SpecPage.                        *)
(***************************************************************************)

\* C1 (pagination round-trip): reading from start_index 0 with a positive
\* max_length and advancing by the length of each slice returned by
\* formatDocumentationResult, the slices collected so far are always the first
\* start_index characters of the content, the reading ends after at most
\* length(content) + 1 calls, and when it has ended the concatenation of the
\* slices is the content exactly.
C1_RoundTrip ==
    page.pc \in {"paging", "done"} =>
        /\ page.acc = SubSeq(page.content, 1, Len(page.acc))
        /\ page.calls <= Len(page.content) + 1
        /\ page.pc = "paging" => Len(page.acc) = page.startIndex
        /\ page.pc = "done" => page.acc = page.content

\* A round trip over a content of full length that took several calls.
C1_Witness ==
    /\ page.pc = "done"
    /\ Len(page.content) = MaxLen
    /\ page.calls >= 2
    /\ page.acc = page.content

\* C2 (pagination termination): formatDocumentationResult called with
\* startIndex >= length(content), whatever maxLength, returns the "No more
\* content available" message naming the url, with no slice of the content and
\* no continuation notice.
C2_Termination ==
    (/\ page.pc = "called"
     /\ page.impl = "utils"
     /\ page.startIndex >= Len(page.content)) =>
        /\ page.last.kind = "nomore"
        /\ page.last.header
        /\ page.last.url = page.url
        /\ page.last.text = <<>>
        /\ page.last.notice = "none"

\* A call exactly at the end of a non-empty content.
C2_Witness ==
    /\ page.pc = "called"
    /\ page.impl = "utils"
    /\ page.content # <<>>
    /\ page.startIndex = Len(page.content)
    /\ page.last.kind = "nomore"

\* C3 (continuation notice): in every read_documentation implementation, for a
\* cursor with startIndex >= 0 and maxLength > 0, a returned slice that stops
\* short of the end of the content is followed by a notice naming exactly
\* startIndex + sliceLength as the next start_index, and a slice that reaches
\* the end is followed by no notice.
C3_ContinuationNotice ==
    (/\ page.pc = "called"
     /\ page.last.kind = "slice"
     /\ page.startIndex >= 0
     /\ page.maxLength > 0) =>
        LET reached == page.startIndex + Len(page.last.text)
        IN  /\ reached < Len(page.content) =>
                  (page.last.notice = "numbered" /\ page.last.next = reached)
            /\ reached = Len(page.content) => page.last.notice = "none"

(***************************************************************************)
(* Claims about dispatch, checked under Spec.                              *)
(***************************************************************************)
\* The exchange was answered by the method switch or by the catch block
\* around it: the request got past the router and the session check.
Dispatched == rpc.phase = "done" /\ rpc.resp.layer \in {"dispatch", "catch"}

ToolsListRequest ==
    /\ rpc.body.kind = "object"
    /\ rpc.body.jsonrpc = "2.0"
    /\ rpc.body.method = "tools/list"

\* C4 (dispatcher routing): a request {jsonrpc: "2.0", id, method: "tools/list"}
\* that reaches a dispatcher on any transport endpoint is answered with a
\* result whose tool names are exactly search_documentation,
\* read_documentation and recommend, each once, and with no error.
C4_ToolsList ==
    (Dispatched /\ ToolsListRequest) =>
        LET msg == rpc.resp.msg
        IN  /\ msg.result.type = "tools"
            /\ Len(msg.result.tools) = Cardinality(ToolNames)
            /\ {msg.result.tools[i] : i \in DOMAIN msg.result.tools} = ToolNames
            /\ msg.error.shape = "none"

\* C5 (invalid envelope): a request object whose jsonrpc member is missing or
\* is not "2.0" is answered with a JSON-RPC error of code -32600, whatever
\* its method, by every dispatcher.
C5_InvalidEnvelope ==
    (Dispatched /\ rpc.body.kind = "object" /\ rpc.body.jsonrpc # "2.0") =>
        /\ rpc.resp.msg.error.shape = "object"
        /\ rpc.resp.msg.error.code = -32600
        /\ rpc.resp.msg.result.type = "none"

\* A request that got past the router and the session check: it is answered
\* by the dispatcher, or its handler is still running, or never returns.
Admitted ==
    \/ rpc.phase \in {"awaiting", "hung"}
    \/ rpc.phase = "done" /\ rpc.resp.layer \notin {"guard", "route", "info"}

UnknownMethodRequest ==
    /\ rpc.body.kind = "object"
    /\ rpc.body.jsonrpc = "2.0"
    /\ rpc.body.method \notin KnownMethods

\* C6 (unknown method): a request with jsonrpc "2.0" whose method is none of
\* initialize, tools/list, tools/call, resources/list, prompts/list is, once
\* its handler has run, answered with a JSON-RPC error of code -32601 and no
\* result, and no upstream fetch was issued for it (so no tool handler ran:
\* every tool handler of the repository that is given arguments fetches, and
\* the answer carries no tool result).
C6_UnknownMethod ==
    (Admitted /\ rpc.phase # "awaiting" /\ UnknownMethodRequest) =>
        /\ rpc.phase = "done"
        /\ rpc.resp.layer = "dispatch"
        /\ rpc.resp.msg.error.shape = "object"
        /\ rpc.resp.msg.error.code = -32601
        /\ rpc.resp.msg.result = NoResult
        /\ rpc.fetches = <<>>

C6_Witness ==
    /\ target = "worker"
    /\ Dispatched
    /\ UnknownMethodRequest
    /\ rpc.body.method = "bogus"
    /\ rpc.body.id = "2"
    /\ rpc.resp.msg.error.code = -32601

\* C7 (envelope well-formedness): every message emitted in answer to a
\* JSON-RPC request, by the method switch or by the catch block of the
\* transport, carries jsonrpc "2.0", exactly one of result and error, an
\* error that is an object {code, message, data?}, and the id of the request
\* (null or no id when the body could not be read as a request object).
C7_Envelope ==
    Dispatched =>
        LET msg == rpc.resp.msg
        IN  /\ msg.jsonrpc = "2.0"
            /\ (msg.result.type = "none") # (msg.error.shape = "none")
            /\ msg.error.shape \in {"none", "object"}
            /\ IF rpc.body.kind \in {"object", "array"}
               THEN msg.id = rpc.body.id
               ELSE msg.id \in {"null", "absent"}

\* C9 (session guard): a POST on an SSE message endpoint whose sessionId is
\* missing or was never issued by a GET /sse is rejected with HTTP 400 by the
\* session check, before the body is read: no JSON-RPC message is produced
\* and nothing is fetched.
C9_SessionGuard ==
    (/\ rpc.phase # "none"
     /\ rpc.ep \in {"POST /messages", "POST /sse/message"}
     /\ (rpc.sid = NoSid \/ rpc.sid \notin DOMAIN conns)) =>
        /\ rpc.phase = "done"
        /\ rpc.resp.status = 400
        /\ rpc.resp.layer = "guard"
        /\ rpc.resp.msg.result.type = "none"
        /\ rpc.fetches = <<>>

ReadForeignUrl ==
    /\ rpc.body.kind = "object"
    /\ rpc.body.jsonrpc = "2.0"
    /\ rpc.body.method = "tools/call"
    /\ rpc.body.params.name = "read_documentation"
    /\ "url" \in rpc.body.params.args.keys
    /\ ~UnderAwsDocs(rpc.body.params.args.url)

\* C10 (URL domain guard): a tools/call of read_documentation whose url is
\* not under the AWS documentation domain fails (a JSON-RPC error or a tool
\* result flagged isError) and no fetch is issued for it, on every path that
\* reaches a read_documentation implementation.
C10_UrlGuard ==
    (Admitted /\ rpc.phase # "awaiting" /\ ReadForeignUrl) =>
        /\ rpc.fetches = <<>>
        /\ rpc.phase = "done"
        /\ \/ rpc.resp.msg.error.shape = "object"
           \/ rpc.resp.msg.result.isError

(***************************************************************************)
(* Claims about sessions, checked under SpecSess.                          *)
(***************************************************************************)

\* C8 (session expiry): when a POST /messages names a session that has
\* received no message for longer than maxAge (30 minutes), the session is
\* not in the active set: the request is rejected by the session check with
\* HTTP 400 and is not dispatched.
C8_SessionExpiry ==
    (rpc.ep = "POST /messages" /\ rpc.idle) =>
        /\ rpc.phase = "done"
        /\ rpc.resp.status = 400
        /\ rpc.resp.layer = "guard"
        /\ rpc.sid \notin DOMAIN sessions

C8_Witness ==
    /\ rpc.ep = "POST /messages"
    /\ rpc.idle
    /\ rpc.sid \in DOMAIN conns
    /\ now - conns[rpc.sid].lastActivity > maxAge
    /\ rpc.resp.status = 400

(***************************************************************************)
(* Claims about recommendations, checked under SpecRec.                    *)
(***************************************************************************)
Take(seq, n) == SubSeq(seq, 1, Min(Len(seq), Max(n, 0)))

\* C11 (recommendation ordering): the items that a recommend implementation
\* returns are the upstream buckets highlyRated, journey, new, similar
\* concatenated in that order and cut to the first max_results items; and
\* parseRecommendationResults yields the concatenation in that order.
C11_RecommendOrder ==
    (fn.pc = "called" /\ fn.name = "recommend" /\ fn.up = "ok") =>
        /\ fn.out.how = "returned"
        /\ IF fn.impl = "parseRecommendationResults"
           THEN fn.out.items = parseRecommendationResults(fn.data)
           ELSE fn.out.items = Take(parseRecommendationResults(fn.data), fn.maxResults)

(***************************************************************************)
(* Claims about tool calls and transports, checked under Spec.             *)
(***************************************************************************)
\* A tools/call whose upstream request failed: a non-success status, a
\* network fault, or (for the tools that read JSON) a malformed body.
UpstreamFailed ==
    /\ rpc.body.kind = "object"
    /\ rpc.body.jsonrpc = "2.0"
    /\ rpc.body.method = "tools/call"
    /\ rpc.fetches # <<>>
    /\ \/ rpc.up \in {"status", "throw"}
       \/ rpc.up = "badbody" /\ rpc.body.params.name # "read_documentation"

\* C12 (tool failures are tool-level): when the handler of a tools/call meets
\* an upstream failure, the answer is a success envelope whose result is a
\* tool result with isError true; it is no JSON-RPC error object and no
\* result without isError.
C12_ToolFailure ==
    (Admitted /\ rpc.phase # "awaiting" /\ UpstreamFailed) =>
        /\ rpc.phase = "done"
        /\ rpc.resp.msg.error.shape = "none"
        /\ rpc.resp.msg.result.type = "tool"
        /\ rpc.resp.msg.result.isError

\* A POST on an SSE message endpoint that names a session id issued by a
\* GET /sse and was answered by the dispatcher.
KnownSessionPost ==
    /\ Dispatched
    /\ rpc.ep \in {"POST /messages", "POST /sse/message"}
    /\ rpc.sid \in DOMAIN conns

\* C13 (SSE side-channel delivery): for a POST to the companion URL with a
\* known session id, the JSON-RPC response is a data frame on the GET stream
\* that created the session, and the body of the POST's own response carries
\* no JSON-RPC message.
C13_SideChannel ==
    KnownSessionPost =>
        /\ \E i \in DOMAIN conns[rpc.sid].frames :
                conns[rpc.sid].frames[i].event = "message"
        /\ rpc.resp.msg = NotRpc

(***************************************************************************)
(* Claims about the SSE streams, checked under SpecSess.                   *)
(***************************************************************************)
\* The POST endpoint that goes with the GET /sse of the deployed target.
CompanionPath == IF target = "transports" THEN "/messages" ELSE "/sse/message"

\* The session check can still find the session of the stream: the target
\* keeps no session set, or the hard-close timeout of the stream has not run.
StillOffered(id) == target = "transports" => conns[id].timer

C15_AdapterEquivalence ==
    (target = "transports" /\ Dispatched /\ rpc.body.kind = "object"
        /\ rpc.body.jsonrpc = "2.0") =>
        /\ rpc.resp.msg = PostMcpResponse(rpc.body).msg
        /\ rpc.resp.msg = PostMessagesResponse(rpc.body).msg

\* C16 (timer cancellation): once an SSE connection is closed, by the client
\* going away or by the hard-close timeout, neither its heartbeat interval
\* nor its hard-close timeout is still set, and its session is no longer in
\* the session set.
C16_TimerCancellation ==
    \A id \in DOMAIN conns :
        conns[id].stream \in {"closed", "cancelled"} =>
            /\ ~conns[id].heartbeat
            /\ ~conns[id].timer
            /\ id \notin DOMAIN sessions

\* C17 (no destructive removal race): a session that passed the session check
\* of a POST /messages stays in the session set while that request waits for
\* its body, and is still there when its response is produced.
C17_NoRemovalRace ==
    (rpc.ep = "POST /messages" /\ rpc.resp.layer # "guard") =>
        /\ rpc.phase = "awaiting" => rpc.sid \in DOMAIN sessions
        /\ rpc.phase = "done" => rpc.alive

(***************************************************************************)
(* Further claims about dispatch, checked under Spec.                      *)
(***************************************************************************)
\* C18 (parse errors): a request whose body is not JSON, or is the JSON value
\* null, is answered on every transport with a JSON-RPC error envelope whose
\* code is -32700.
C18_ParseError ==
    (Admitted /\ rpc.phase # "awaiting" /\ rpc.body.kind \in {"invalid", "null"}) =>
        /\ rpc.phase = "done"
        /\ rpc.resp.msg.jsonrpc = "2.0"
        /\ rpc.resp.msg.error.shape = "object"
        /\ rpc.resp.msg.error.code = -32700

\* C19 (empty capability lists): a request with jsonrpc "2.0" and method
\* resources/list or prompts/list that reaches a dispatcher is answered with
\* a success result holding the empty collection of that name, and no error.
C19_EmptyLists ==
    (/\ Dispatched
     /\ rpc.body.kind = "object"
     /\ rpc.body.jsonrpc = "2.0"
     /\ rpc.body.method \in {"resources/list", "prompts/list"}) =>
        /\ rpc.resp.msg.error.shape = "none"
        /\ rpc.resp.msg.result =
              EmptyList(IF rpc.body.method = "resources/list" THEN "resources" ELSE "prompts")

(***************************************************************************)
(* Claims about content extraction, checked under SpecExtract.             *)
(***************************************************************************)
\* C20 (main-content selection): whenever some candidate container of the
\* document holds content, the extractor uses the first such candidate in the
\* order main, article, #main-content, .main-content, #awsdocs-content,
\* .awsui-article, body: an earlier candidate that is present but empty does
\* not win, and neither does a later one. This holds for both strategies.
C20_FirstNonEmpty ==
    (fn.pc = "called" /\ fn.name = "extract") =>
        \A i \in DOMAIN Candidates :
            (fn.doc[i] = "text" /\ \A j \in 1 .. i - 1 : fn.doc[j] # "text")
                => fn.out = Selected(i)

(***************************************************************************)
(* Claims about the conversion of a page, checked under SpecConvert.       *)
(***************************************************************************)
\* C21 (ContentEmpty): whenever the text extracted from a page is empty or
\* shorter than 10 characters, extractContentFromHtml returns the diagnostic
\* placeholder in place of the text, whichever strategy is active.
C21_ContentEmpty ==
    (fn.pc = "called" /\ fn.name = "convert") =>
        (fn.out.len < MinContentLength => fn.out.kind = "placeholder")

\* What a returned value shows of the page: the headings and link targets of
\* the text, none for a placeholder.
Shown(out) == IF out.kind = "placeholder" THEN {} ELSE out.marks

\* C22 (extraction equivalence): for one and the same page the structural and
\* the textual strategy keep the same chunks of content (they select the same
\* main-content region and remove the same boilerplate regions), so their
\* outputs hold the same headings and the same link targets.
C22_ExtractionEquivalence ==
    (fn.pc = "called" /\ fn.name = "convert" /\ ~fn.html.blank) =>
        /\ extractWithJSDOMText(fn.html).marks = extractWithRegexText(fn.html).marks
        /\ Shown(extractWithJSDOMText(fn.html)) = Shown(extractWithRegexText(fn.html))

(***************************************************************************)
(* Claims about tool calls, checked under Spec.                            *)
(***************************************************************************)
\* The required argument of a tool in the inputSchema that the target lists:
\* index.ts:299-324, mcp-server.js:52-87 (served by worker.js).
Required(t, name) ==
    CASE name = "read_documentation" -> "url"
      [] name = "search_documentation" -> IF t = "index" THEN "query" ELSE "search_phrase"
      [] name = "recommend" -> IF t = "index" THEN "content" ELSE "url"

\* A well-formed tools/call that names a registered tool of the target and
\* lacks the argument that the tool's schema requires.
InvalidArguments ==
    /\ target \in {"index", "worker"}
    /\ rpc.body.kind = "object"
    /\ rpc.body.jsonrpc = "2.0"
    /\ rpc.body.method = "tools/call"
    /\ rpc.body.params.given
    /\ rpc.body.params.name \in ToolNames
    /\ Required(target, rpc.body.params.name) \notin rpc.body.params.args.keys

\* C23 (argument validation): a tools/call that names a registered tool with
\* arguments that violate the tool's schema is answered, before any upstream
\* call, with a success envelope whose result has isError true: no JSON-RPC
\* error object, no normal result computed from defaults. The same holds for
\* the handler of the stdio server, which must return the isError result and
\* not throw.
C23_ArgumentValidation ==
    (Admitted /\ rpc.phase # "awaiting" /\ InvalidArguments) =>
        /\ rpc.phase = "done"
        /\ rpc.fetches = <<>>
        /\ rpc.resp.msg.error.shape = "none"
        /\ rpc.resp.msg.result.type = "tool"
        /\ rpc.resp.msg.result.isError
        /\ LET t == CallToolRequestHandler(rpc.body.params, rpc.up)
           IN  (ZodRequired(rpc.body.params.name) \notin rpc.body.params.args.keys) =>
                  t.how = "returned" /\ t.result.isError /\ t.fetches = <<>>

\* A well-formed tools/call whose handler issued an upstream request that the
\* upstream never answers.
UpstreamSilent ==
    /\ rpc.body.kind = "object"
    /\ rpc.body.jsonrpc = "2.0"
    /\ rpc.body.method = "tools/call"
    /\ rpc.fetches # <<>>
    /\ rpc.up = "hang"

\* C24 (bounded upstream calls): every upstream call of a tool handler is cut
\* off by a timeout, so a tools/call whose upstream never answers is still
\* answered, with a tool-level error (a success envelope whose result has
\* isError true); no request stays without a response.
C24_BoundedUpstream ==
    /\ rpc.phase # "hung"
    /\ (Admitted /\ rpc.phase # "awaiting" /\ UpstreamSilent) =>
          /\ rpc.phase = "done"
          /\ rpc.resp.msg.error.shape = "none"
          /\ rpc.resp.msg.result.type = "tool"
          /\ rpc.resp.msg.result.isError

Fired(id) == conns[id].due > 0 /\ ~conns[id].timer

\* C26 (hard age cap), checked under SpecSess: once the 5-minute timeout of an
\* SSE connection has fired, its stream is no longer open, its session is not
\* in the active set, no frame is written to it any more, and a POST
\* /messages that arrives naming its session id is rejected by the session
\* check, however recently the session accepted a message.
C26_HardAgeCap ==
    /\ [](\A id \in DOMAIN conns :
             Fired(id) => conns[id].stream # "open" /\ id \notin DOMAIN sessions)
    /\ [][\A id \in DOMAIN conns : Fired(id) => conns'[id].frames = conns[id].frames]_vars
    /\ [][(/\ rpc.phase = "none"
           /\ rpc'.phase # "none"
           /\ rpc'.ep = "POST /messages"
           /\ rpc'.sid \in DOMAIN conns
           /\ Fired(rpc'.sid))
              => /\ rpc'.phase = "done"
                 /\ rpc'.resp.status = 400
                 /\ rpc'.resp.layer = "guard"]_vars

\* The timeout of a connection has fired in the very instant in which its
\* session accepted a message, the stream had carried a heartbeat, and a POST
\* that named the session afterwards was rejected.
C26_Witness ==
    /\ rpc.phase = "done"
    /\ rpc.ep = "POST /messages"
    /\ rpc.sid \in DOMAIN conns
    /\ Fired(rpc.sid)
    /\ conns[rpc.sid].lastActivity = conns[rpc.sid].due
    /\ rpc.resp.status = 400
    /\ \E i \in 1 .. Len(conns[rpc.sid].frames) : conns[rpc.sid].frames[i] = HeartbeatFrame

\* A POST /messages arrives in this step.
PostMessagesArrives ==
    rpc.phase = "none" /\ rpc'.phase # "none" /\ rpc'.ep = "POST /messages"

\* C27 (activity refresh), checked under SpecSess: a POST /messages accepted
\* for session s sets s.lastActivity to the current time and changes nothing
\* else in the session set (id and createdAt of s as before, every other
\* session as before, none added or removed), also while the rest of the
\* request runs; a rejected POST changes no session.
C27_ActivityRefresh ==
    /\ [][(PostMessagesArrives /\ rpc'.phase = "awaiting") =>
            /\ rpc'.sid \in DOMAIN sessions
            /\ sessions' = [sessions EXCEPT ![rpc'.sid] =
                               [id |-> sessions[rpc'.sid].id,
                                createdAt |-> sessions[rpc'.sid].createdAt,
                                lastActivity |-> now]]]_vars
    /\ [][(PostMessagesArrives /\ rpc'.phase # "awaiting") => sessions' = sessions]_vars
    /\ [][(rpc.phase = "awaiting" /\ rpc'.phase = "done") => sessions' = sessions]_vars

\* A session created earlier has just accepted a message, next to another
\* session that has not.
C27_Witness ==
    /\ rpc.phase = "awaiting"
    /\ rpc.sid \in DOMAIN sessions
    /\ sessions[rpc.sid].lastActivity = now
    /\ sessions[rpc.sid].createdAt < now
    /\ \E other \in DOMAIN sessions \ {rpc.sid} : sessions[other].lastActivity < now

\* C28 (no automatic retry), checked under Spec: one tools/call issues at most
\* one upstream request, whether the upstream answers with success, answers
\* with a non-success status, fails or stays silent; a failed request is not
\* sent again.
C28_NoRetry ==
    (rpc.phase \in {"done", "hung"} /\ rpc.body.method = "tools/call") =>
        Len(rpc.fetches) <= 1

\* A tools/call whose one upstream request failed has been answered.
C28_Witness ==
    /\ rpc.phase = "done"
    /\ rpc.body.kind = "object"
    /\ rpc.body.method = "tools/call"
    /\ rpc.body.params.name = "search_documentation"
    /\ rpc.up \in {"status", "throw"}
    /\ Len(rpc.fetches) = 1
    /\ rpc.resp.layer = "dispatch"

McpEndpoints == {"POST /mcp", "GET /mcp"}

\* C29 (streamable HTTP is session-free), checked under Spec: a POST /mcp or
\* GET /mcp request, whatever its method and whether it ends in the dispatch
\* or in the catch block, adds, changes and removes no session, and its
\* response is fixed by the request alone: the same whatever sessions are
\* active.
C29_SessionFree ==
    /\ [][(rpc.ep \in McpEndpoints \/ rpc'.ep \in McpEndpoints) => sessions' = sessions]_vars
    /\ [](rpc.ep \in McpEndpoints =>
             /\ rpc.phase = "done"
             /\ rpc.resp = IF rpc.ep = "POST /mcp" THEN PostMcpResponse(rpc.body)
                           ELSE Resp(200, "json", "info", NotRpc))

\* A POST /mcp has ended in the catch block while a session was active.
C29_Witness ==
    /\ rpc.phase = "done"
    /\ rpc.ep = "POST /mcp"
    /\ rpc.resp.layer = "catch"
    /\ DOMAIN sessions # {}

\* C30 (no session leak), checked under SpecLeak: with timers that fire, every
\* session that GET /sse has put into the active set is removed from it in
\* the end, whether the client never posts, drops the connection early or
\* keeps posting messages.
C30_NoSessionLeak ==
    \A id \in SessionIds : (id \in DOMAIN sessions) ~> (id \notin DOMAIN sessions)

\* The session of a connection that the client dropped early, and that
\* accepted a message at the very end, has been removed by the timeout.
C30_Witness ==
    \E id \in DOMAIN conns :
        /\ Fired(id)
        /\ id \notin DOMAIN sessions
        /\ conns[id].stream = "cancelled"
        /\ conns[id].lastActivity = conns[id].due

============================================================================
